---- MODULE Spec2Model ----
(***************************************************************************)
(* V-Split: the engine adapter (FFmpegService: load, splitVideo) and the   *)
(* App component that drives it, as a state machine.  Every await of the   *)
(* source is a step boundary; the synchronous code between two awaits is   *)
(* part of one action.  The engine (ffmpeg.wasm), fetch and toBlobURL are  *)
(* external: their outcomes are chosen by the environment.                 *)
(***************************************************************************)
EXTENDS Integers, Sequences, FiniteSets

VARIABLES
    loaded,        \* FFmpegService.loaded
    pc,            \* position of the service call in flight
    call,          \* the public method in flight: "none", "load", "split"
    ops,           \* external operations issued during the current call, in order
    failed,        \* operations that threw during the current call, in order
    thrown,        \* the error the call rejected with (<<>>: none)
    error,         \* the error caught by splitVideo's catch block
    files,         \* const files: File[] of splitVideo (their names)
    dir,           \* const dir = await ffmpeg.listDir('.')
    idx,           \* index of the for-of loop over dir
    progressSeq,   \* the values passed to onProgress during the current call
    workerScript,  \* let workerScript (token sequence)
    oldScript,     \* const oldScript
    fetchStatus,   \* status of each resource fetch of the current call
    count,         \* per page session: how often each bootstrap step ran
    fs,            \* the engine's working directory, in listing order
    mounted,       \* WORKERFS is mounted on /input_mount
    state,         \* App: state
    videoFile,     \* App: videoFile !== null
    logs,          \* App: logs (fed by the service's log callback)
    progress,      \* App: progress
    outputFiles,   \* App: outputFiles
    errorMessage,  \* App: errorMessage
    ffmpegRef,     \* App: ffmpegRef.current !== null
    inflight,      \* splitVideo calls started and not yet settled
    ncalls         \* calls issued by the sequential caller

svcVars == <<loaded, pc, call, ops, failed, thrown, error, files, dir, idx,
             progressSeq, workerScript, oldScript, fetchStatus, count>>
engVars == <<fs, mounted>>
appVars == <<state, videoFile, outputFiles, errorMessage, ffmpegRef, inflight>>
vars == <<svcVars, engVars, appVars, logs, progress, ncalls>>

(* ------------------------------ bounds -------------------------------- *)
MaxSegs == 5        \* most segments one exec writes
MaxCalls == 3       \* calls the sequential caller issues
MaxScriptLen == 5   \* longest worker script drawn token by token
MaxSnips == 3       \* most snippets a composed worker script holds

(* ------------------------------ helpers ------------------------------- *)
Range(s) == {s[i] : i \in 1..Len(s)}

Last(s) == s[Len(s)]

RECURSIVE Flatten(_)
Flatten(ss) == IF ss = <<>> THEN <<>> ELSE Head(ss) \o Flatten(Tail(ss))

SeqsUpTo(S, n) == UNION {[1..k -> S] : k \in 0..n}

(* --------------------------- log events ------------------------------- *)
\* FFmpegService.log: the event handed to the log callback (timestamp left out)
LogEntry(type, message) == [type |-> type, message |-> message]

WarnNoPatch == LogEntry("info", "Warning: No imports patched in worker script.")

(* ------------------- worker script and its rewrite --------------------- *)
\* The script text as a token sequence.  "from" is the keyword, " " and "\n"
\* are whitespace (only "\n" is a line terminator), "'" and "\"" the quotes,
\* "./" the relative prefix, "x" any other character.
Tokens == {"from", " ", "\n", "'", "\"", "./", "x"}
Quotes == {"'", "\""}
Space == {" ", "\n"}
BaseURL == "https://cdn.jsdelivr.net/npm/@ffmpeg/ffmpeg@0.12.10/dist/esm/"

\* index of the first non-whitespace token at or after i (Len(s)+1 if none): \s*
RECURSIVE SkipSpace(_, _)
SkipSpace(s, i) ==
    IF i <= Len(s) /\ s[i] \in Space THEN SkipSpace(s, i + 1) ELSE i

\* (.*?)['"] from i: index of the closing quote, 0 if a line terminator or the
\* end of the text comes first ("." matches no line terminator)
RECURSIVE LazyClose(_, _)
LazyClose(s, i) ==
    IF i > Len(s) \/ s[i] = "\n" THEN 0
    ELSE IF s[i] \in Quotes THEN i
    ELSE LazyClose(s, i + 1)

\* /from\s*['"]\.\/(.*?)['"]/ anchored at p: <<start of the capture, index of the
\* closing quote>>, or <<0, 0>> when the pattern does not match at p
MatchAt(s, p) ==
    IF p > Len(s) \/ s[p] # "from" THEN <<0, 0>>
    ELSE LET q == SkipSpace(s, p + 1) IN
         IF q + 1 > Len(s) \/ s[q] \notin Quotes \/ s[q + 1] # "./" THEN <<0, 0>>
         ELSE LET e == LazyClose(s, q + 2) IN
              IF e = 0 THEN <<0, 0>> ELSE <<q + 2, e>>

\* (match, p1) => `from '${baseURL}/${p1}'`
Replacement(p1) == <<"from", " ", "'", BaseURL>> \o p1 \o <<"'">>

\* String.prototype.replace with the g flag, scanning from position i
RECURSIVE ReplaceFrom(_, _)
ReplaceFrom(s, i) ==
    IF i > Len(s) THEN <<>>
    ELSE LET m == MatchAt(s, i) IN
         IF m[2] = 0 THEN <<s[i]>> \o ReplaceFrom(s, i + 1)
         ELSE Replacement(SubSeq(s, m[1], m[2] - 1)) \o ReplaceFrom(s, m[2] + 1)

\* replace without the g flag: only the first match is rewritten
PatchWorker_FirstOnly(s) ==
    LET starts == {p \in 1..Len(s) : MatchAt(s, p)[2] # 0} IN
    IF starts = {} THEN s
    ELSE LET p == CHOOSE x \in starts : \A y \in starts : x <= y
             m == MatchAt(s, p)
         IN  SubSeq(s, 1, p - 1) \o Replacement(SubSeq(s, m[1], m[2] - 1))
                 \o SubSeq(s, m[2] + 1, Len(s))

PatchWorker(s) == ReplaceFrom(s, 1)

\* worker.js bodies the CDN can answer with in the full model
WorkerScripts ==
    { <<"x", "from", "\"", "./", "x", "\"", "x", "from", "\"", "./", "x", "\"">>,
      <<"x", "from", " ", "'", "./", "x", "'">>,
      <<"x", "x">> }

(* ------------------------ the engine's filesystem ---------------------- *)
Digit == <<"0", "1", "2", "3", "4", "5", "6", "7", "8", "9">>

\* 'output_%03d.mp4' for segment k, as tokens
OutputName(k) ==
    <<"output_", Digit[((k \div 100) % 10) + 1], Digit[((k \div 10) % 10) + 1],
      Digit[(k % 10) + 1], ".mp4">>

FileEntry(name) == [name |-> name, isDir |-> FALSE]
DirEntry(name) == [name |-> name, isDir |-> TRUE]

\* const mountDir = '/input_mount', as it is listed in the working directory '/'
MountDir == DirEntry(<<"input_mount">>)
\* a directory the engine's root always holds
SystemDir == DirEntry(<<"tmp">>)

MountDirExists == MountDir \in Range(fs)

Remove(s, e) == SelectSeq(s, LAMBDA x : x # e)

\* the segment muxer writing segments 0..n-1: a file that exists is overwritten
\* in place, a new one is added at the end of the directory
WriteOutputs(d, n) ==
    LET new == [k \in 1..n |-> FileEntry(OutputName(k - 1))]
    IN  d \o SelectSeq(new, LAMBDA e : e \notin Range(d))

\* f.name.startsWith('output_') && f.name.endsWith('.mp4')
StartsWithOutput(name) == Len(name) >= 1 /\ name[1] = "output_"
EndsWithMp4(name) == Len(name) >= 1 /\ name[Len(name)] = ".mp4"

\* the test of the drain loop on one directory entry
IsOutputFile(f) == ~f.isDir /\ StartsWithOutput(f.name) /\ EndsWithMp4(f.name)

\* the next index of dir at or after i that the loop body handles (Len+1: none)
RECURSIVE NextMatch(_, _)
NextMatch(d, i) ==
    IF i > Len(d) \/ IsOutputFile(d[i]) THEN i ELSE NextMatch(d, i + 1)

(* ------------------------------ state ---------------------------------- *)
Resources == {"worker", "core", "wasm"}
BootSteps == {"fetch:worker", "patch", "fetch:core", "fetch:wasm", "init"}
JobOps == {"createDir", "mount", "exec", "listDir", "readFile", "deleteFile"}
CleanupOps == {"unmount", "deleteDir"}
NoFetch == [r \in Resources |-> "none"]
Settled == {"idle", "returned", "threw"}

Init ==
    /\ loaded = FALSE
    /\ pc = "idle"
    /\ call = "none"
    /\ ops = <<>>
    /\ failed = <<>>
    /\ thrown = <<>>
    /\ error = <<>>
    /\ files = <<>>
    /\ dir = <<>>
    /\ idx = 0
    /\ progressSeq = <<>>
    /\ workerScript = <<>>
    /\ oldScript = <<>>
    /\ fetchStatus = NoFetch
    /\ count = [b \in BootSteps |-> 0]
    /\ fs = <<SystemDir>>
    /\ mounted = FALSE
    /\ state = "IDLE"
    /\ videoFile = FALSE
    /\ logs = <<>>
    /\ progress = 0
    /\ outputFiles = <<>>
    /\ errorMessage = <<>>
    /\ ffmpegRef = FALSE
    /\ inflight = 0
    /\ ncalls = 0

\* issuing a bootstrap step: it is recorded for the call and for the session
Issue(op) ==
    /\ ops' = Append(ops, op)
    /\ count' = [count EXCEPT ![op] = @ + 1]

\* what a call starts from: the locals of the previous call are gone
CallStart(c) ==
    /\ call' = c
    /\ failed' = <<>>
    /\ thrown' = <<>>
    /\ error' = <<>>
    /\ files' = <<>>
    /\ dir' = <<>>
    /\ idx' = 0
    /\ progressSeq' = <<>>
    /\ workerScript' = <<>>
    /\ oldScript' = <<>>
    /\ fetchStatus' = NoFetch

(* ------------------------- FFmpegService.load -------------------------- *)
\* load() without its first line, `if (this.loaded) return`
LoadBegin_NoGuard(base) ==
    /\ logs' = base \o <<LogEntry("info", "Checking environment capabilities..."),
                         LogEntry("info", "Loading FFmpeg resources..."),
                         LogEntry("info", "Fetching worker script...")>>
    /\ pc' = "L_fetch"
    /\ ops' = <<"fetch:worker">>
    /\ count' = [count EXCEPT !["fetch:worker"] = @ + 1]

\* load() from its entry to its first await (the worker fetch); base: the log
\* sequence at entry
LoadBegin(base) ==
    IF loaded
    THEN /\ pc' = "returned"
         /\ logs' = base
         /\ ops' = <<>>
         /\ UNCHANGED count
    ELSE /\ \E crossOriginIsolated \in BOOLEAN :
              logs' = base
                  \o <<LogEntry("info", "Checking environment capabilities...")>>
                  \o (IF crossOriginIsolated THEN <<>>
                      ELSE <<LogEntry("info", "Note: SharedArrayBuffer is not available.")>>)
                  \o <<LogEntry("info", "Loading FFmpeg resources..."),
                       LogEntry("info", "Fetching worker script...")>>
         /\ pc' = "L_fetch"
         /\ ops' = <<"fetch:worker">>
         /\ count' = [count EXCEPT !["fetch:worker"] = @ + 1]

\* a log callback that is setLogs([log]) instead of the functional update
\* setLogs(prev => [...prev, log]): the error event replaces the log
LoadCatch_LogReplaced(msg) ==
    /\ logs' = <<LogEntry("error", "Failed to load FFmpeg")>>
    /\ thrown' = <<"FFmpeg Load Error", msg>>
    /\ pc' = "threw"

\* the catch block of load(): log, then throw the wrapped error
LoadCatch(msg) ==
    /\ logs' = Append(logs, LogEntry("error", "Failed to load FFmpeg"))
    /\ thrown' = <<"FFmpeg Load Error", msg>>
    /\ pc' = "threw"

\* await fetch(`${baseURL}/worker.js`) settles; !workerResp.ok throws
LoadFetchWorker ==
    /\ pc = "L_fetch"
    /\ \E st \in {"ok", "bad", "neterr"} :
        /\ fetchStatus' = [fetchStatus EXCEPT !["worker"] = st]
        /\ IF st = "ok"
           THEN /\ \E body \in WorkerScripts : workerScript' = body
                /\ pc' = "L_text"
                /\ UNCHANGED <<logs, thrown>>
           ELSE /\ LoadCatch(IF st = "bad" THEN "Failed to fetch worker" ELSE "fetch")
                /\ UNCHANGED workerScript
    /\ UNCHANGED <<loaded, call, ops, failed, error, files, dir, idx, progressSeq,
                   oldScript, count, engVars, appVars, progress, ncalls>>

\* await workerResp.text() settles: patch the imports, warn when nothing changed,
\* make the blob URL, and issue toBlobURL for the core script
LoadPatch ==
    /\ pc = "L_text"
    /\ oldScript' = workerScript
    /\ workerScript' = PatchWorker(workerScript)
    /\ logs' = logs
           \o <<LogEntry("info", "Patching worker imports...")>>
           \o (IF workerScript' = oldScript' THEN <<WarnNoPatch>> ELSE <<>>)
           \o <<LogEntry("info", "Created worker blob")>>
    /\ ops' = ops \o <<"patch", "fetch:core">>
    /\ count' = [count EXCEPT !["patch"] = @ + 1, !["fetch:core"] = @ + 1]
    /\ pc' = "L_core"
    /\ UNCHANGED <<loaded, call, failed, thrown, error, files, dir, idx, progressSeq,
                   fetchStatus, engVars, appVars, progress, ncalls>>

\* toBlobURL: fetch(url) then arrayBuffer(), with no look at the status; it
\* throws only when the fetch itself rejects
ToBlobURLThrows(st) == st = "neterr"

\* await toBlobURL(`${coreBase}/ffmpeg-core.js`) settles
LoadCore ==
    /\ pc = "L_core"
    /\ \E st \in {"ok", "bad", "neterr"} :
        /\ fetchStatus' = [fetchStatus EXCEPT !["core"] = st]
        /\ IF ToBlobURLThrows(st)
           THEN LoadCatch("toBlobURL core") /\ UNCHANGED <<ops, count>>
           ELSE /\ Issue("fetch:wasm")
                /\ pc' = "L_wasm"
                /\ UNCHANGED <<logs, thrown>>
    /\ UNCHANGED <<loaded, call, failed, error, files, dir, idx, progressSeq,
                   workerScript, oldScript, engVars, appVars, progress, ncalls>>

\* await toBlobURL(`${coreBase}/ffmpeg-core.wasm`) settles
LoadWasm ==
    /\ pc = "L_wasm"
    /\ \E st \in {"ok", "bad", "neterr"} :
        /\ fetchStatus' = [fetchStatus EXCEPT !["wasm"] = st]
        /\ IF ToBlobURLThrows(st)
           THEN LoadCatch("toBlobURL wasm") /\ UNCHANGED <<ops, count>>
           ELSE /\ Issue("init")
                /\ logs' = Append(logs, LogEntry("info", "Initializing FFmpeg engine..."))
                /\ pc' = "L_init"
                /\ UNCHANGED thrown
    /\ UNCHANGED <<loaded, call, failed, error, files, dir, idx, progressSeq,
                   workerScript, oldScript, engVars, appVars, progress, ncalls>>

(* ---------------------- FFmpegService.splitVideo ----------------------- *)
\* the values handed to onProgress; the App's callback stores Math.round(p)
OnProgress(p) ==
    /\ progressSeq' = Append(progressSeq, p)
    /\ progress' = p

\* the try block up to its first await: the createDir of the mount point
SplitTry(baseLogs, baseOps) ==
    /\ logs' = Append(baseLogs, LogEntry("info", "Mounting input file..."))
    /\ ops' = Append(baseOps, "createDir")
    /\ pc' = "S_createDir"

\* splitVideo() without `if (!this.loaded) await this.load()`
SplitBegin_NoLoad(base) == SplitTry(base, <<>>) /\ UNCHANGED count

\* splitVideo() from its entry to its first await: load() when not loaded
SplitBegin(base) ==
    IF loaded
    THEN SplitTry(base, <<>>) /\ UNCHANGED count
    ELSE LoadBegin(base)

\* await this.ffmpeg.load(...) settles: mark the session loaded; inside
\* splitVideo the call goes on into the try block
LoadInit ==
    /\ pc = "L_init"
    /\ \E ok \in BOOLEAN :
        IF ok
        THEN /\ loaded' = TRUE
             /\ IF call = "split"
                THEN SplitTry(Append(logs, LogEntry("success", "FFmpeg core loaded successfully.")),
                              ops)
                ELSE /\ logs' = Append(logs, LogEntry("success", "FFmpeg core loaded successfully."))
                     /\ pc' = "returned"
                     /\ UNCHANGED ops
             /\ UNCHANGED thrown
        ELSE LoadCatch("ffmpeg.load") /\ UNCHANGED <<loaded, ops>>
    /\ UNCHANGED <<call, failed, error, files, dir, idx, progressSeq, workerScript,
                   oldScript, fetchStatus, count, engVars, appVars, progress, ncalls>>

\* an operation of the try block threw: the catch block starts its cleanup
SplitCatch(op) ==
    /\ error' = <<op>>
    /\ failed' = Append(failed, op)
    /\ ops' = Append(ops, "unmount")
    /\ pc' = "C_unmount"

\* a catch block whose cleanup is not wrapped in its own try: the latest
\* failure is what the caller gets
Rethrow_CleanupError ==
    /\ logs' = Append(logs, LogEntry("error", "Processing failed"))
    /\ thrown' = <<Last(failed')>>
    /\ pc' = "threw"

\* the end of the catch block: log the failure and rethrow the caught error
Rethrow ==
    /\ logs' = Append(logs, LogEntry("error", "Processing failed"))
    /\ thrown' = error
    /\ pc' = "threw"

\* await this.ffmpeg.createDir(mountDir) settles (EEXIST when it is there)
SplitCreateDir ==
    /\ pc = "S_createDir"
    /\ \E ok \in (IF MountDirExists THEN {FALSE} ELSE BOOLEAN) :
        IF ok
        THEN /\ fs' = Append(fs, MountDir)
             /\ ops' = Append(ops, "mount")
             /\ pc' = "S_mount"
             /\ UNCHANGED <<error, failed>>
        ELSE SplitCatch("createDir") /\ UNCHANGED fs
    /\ UNCHANGED <<loaded, call, thrown, files, dir, idx, progressSeq, workerScript,
                   oldScript, fetchStatus, count, mounted, appVars, logs, progress, ncalls>>

\* a mount whose rejection is not awaited: the call goes on to exec either way
SplitMount_IgnoresFailure ==
    /\ pc = "S_mount"
    /\ \E ok \in (IF mounted THEN {FALSE} ELSE BOOLEAN) :
        /\ mounted' = (mounted \/ ok)
        /\ failed' = (IF ok THEN failed ELSE Append(failed, "mount"))
    /\ logs' = Append(logs, LogEntry("info", "Starting segmentation"))
    /\ OnProgress(10)
    /\ ops' = Append(ops, "exec")
    /\ pc' = "S_exec"
    /\ UNCHANGED <<loaded, call, thrown, error, files, dir, idx, workerScript,
                   oldScript, fetchStatus, count, fs, appVars, ncalls>>

\* await ffmpeg.mount('WORKERFS', ...) settles; then log, onProgress(10), exec
SplitMount ==
    /\ pc = "S_mount"
    /\ \E ok \in (IF mounted THEN {FALSE} ELSE BOOLEAN) :
        IF ok
        THEN /\ mounted' = TRUE
             /\ logs' = Append(logs, LogEntry("info", "Starting segmentation"))
             /\ OnProgress(10)
             /\ ops' = Append(ops, "exec")
             /\ pc' = "S_exec"
             /\ UNCHANGED <<error, failed>>
        ELSE SplitCatch("mount") /\ UNCHANGED <<mounted, logs, progressSeq, progress>>
    /\ UNCHANGED <<loaded, call, thrown, files, dir, idx, workerScript, oldScript,
                   fetchStatus, count, fs, appVars, ncalls>>

\* await this.ffmpeg.exec([...]) settles: the engine has written n segments and
\* logged; the exit code is not looked at; then onProgress(80), log, unmount
SplitExec ==
    /\ pc = "S_exec"
    /\ \E n \in 0..MaxSegs, ok \in BOOLEAN :
        /\ fs' = WriteOutputs(fs, n)
        /\ IF ok
           THEN /\ OnProgress(80)
                /\ logs' = logs \o <<LogEntry("info", "ffmpeg"),
                                     LogEntry("success", "Segmentation complete.")>>
                /\ ops' = Append(ops, "unmount")
                /\ pc' = "S_unmount"
                /\ UNCHANGED <<error, failed>>
           ELSE /\ SplitCatch("exec")
                /\ logs' = Append(logs, LogEntry("info", "ffmpeg"))
                /\ UNCHANGED <<progressSeq, progress>>
    /\ UNCHANGED <<loaded, call, thrown, files, dir, idx, workerScript, oldScript,
                   fetchStatus, count, mounted, appVars, ncalls>>

\* the inner try: await ffmpeg.unmount(mountDir) settles; a failure is only
\* warned about on the console and the call goes on to listDir
SplitUnmount ==
    /\ pc = "S_unmount"
    /\ \E ok \in (IF mounted THEN BOOLEAN ELSE {FALSE}) :
        IF ok
        THEN /\ mounted' = FALSE
             /\ ops' = Append(ops, "deleteDir")
             /\ pc' = "S_deleteDir"
             /\ UNCHANGED failed
        ELSE /\ failed' = Append(failed, "unmount")
             /\ ops' = Append(ops, "listDir")
             /\ pc' = "S_listDir"
             /\ UNCHANGED mounted
    /\ UNCHANGED <<loaded, call, thrown, error, files, dir, idx, progressSeq,
                   workerScript, oldScript, fetchStatus, count, fs, appVars, logs,
                   progress, ncalls>>

\* an inner try without the deleteDir call: the job goes on to listDir and the
\* mount point stays in the filesystem
SplitDeleteDir_Skipped ==
    /\ pc = "S_deleteDir"
    /\ ops' = Append(ops, "listDir")
    /\ pc' = "S_listDir"
    /\ UNCHANGED <<loaded, call, thrown, error, files, dir, idx, progressSeq,
                   workerScript, oldScript, fetchStatus, count, mounted, appVars, logs,
                   progress, ncalls, fs, failed>>

\* the inner try: await this.ffmpeg.deleteDir(mountDir) settles
SplitDeleteDir ==
    /\ pc = "S_deleteDir"
    /\ \E ok \in (IF MountDirExists /\ ~mounted THEN BOOLEAN ELSE {FALSE}) :
        IF ok
        THEN fs' = Remove(fs, MountDir) /\ UNCHANGED failed
        ELSE failed' = Append(failed, "deleteDir") /\ UNCHANGED fs
    /\ ops' = Append(ops, "listDir")
    /\ pc' = "S_listDir"
    /\ UNCHANGED <<loaded, call, thrown, error, files, dir, idx, progressSeq,
                   workerScript, oldScript, fetchStatus, count, mounted, appVars, logs,
                   progress, ncalls>>

\* onProgress(100) moved in front of the reads instead of after the loop
DrainFrom_ReportsEarly(d, i) ==
    LET j == NextMatch(d, i) IN
    /\ idx' = j
    /\ IF j <= Len(d)
       THEN /\ ops' = Append(ops, "readFile")
            /\ pc' = "S_readFile"
            /\ IF 100 \in Range(progressSeq)
               THEN UNCHANGED <<progressSeq, progress>>
               ELSE OnProgress(100)
       ELSE /\ IF 100 \in Range(progressSeq)
               THEN UNCHANGED <<progressSeq, progress>>
               ELSE OnProgress(100)
            /\ pc' = "returned"
            /\ UNCHANGED ops

\* the for-of loop moving on from index i of d: the next entry that passes the
\* test is read; when there is none, onProgress(100) and return files
DrainFrom(d, i) ==
    LET j == NextMatch(d, i) IN
    /\ idx' = j
    /\ IF j <= Len(d)
       THEN /\ ops' = Append(ops, "readFile")
            /\ pc' = "S_readFile"
            /\ UNCHANGED <<progressSeq, progress>>
       ELSE /\ OnProgress(100)
            /\ pc' = "returned"
            /\ UNCHANGED ops

\* await this.ffmpeg.listDir('.') settles
SplitListDir ==
    /\ pc = "S_listDir"
    /\ \E ok \in BOOLEAN :
        IF ok
        THEN /\ dir' = fs
             /\ DrainFrom(fs, 1)
             /\ UNCHANGED <<error, failed>>
        ELSE SplitCatch("listDir") /\ UNCHANGED <<dir, idx, progressSeq, progress>>
    /\ UNCHANGED <<loaded, call, thrown, files, workerScript, oldScript, fetchStatus,
                   count, engVars, appVars, logs, ncalls>>

\* files.unshift in place of files.push
SplitReadFile_Unshift ==
    /\ pc = "S_readFile"
    /\ \E ok \in BOOLEAN :
        IF ok
        THEN /\ files' = <<dir[idx].name>> \o files
             /\ ops' = Append(ops, "deleteFile")
             /\ pc' = "S_deleteFile"
             /\ UNCHANGED <<error, failed>>
        ELSE SplitCatch("readFile") /\ UNCHANGED files
    /\ UNCHANGED <<loaded, call, thrown, dir, idx, progressSeq, workerScript, oldScript,
                   fetchStatus, count, engVars, appVars, logs, progress, ncalls>>

\* await this.ffmpeg.readFile(f.name) settles: files.push(new File(...)), then
\* deleteFile is issued
SplitReadFile ==
    /\ pc = "S_readFile"
    /\ \E ok \in BOOLEAN :
        IF ok
        THEN /\ files' = Append(files, dir[idx].name)
             /\ ops' = Append(ops, "deleteFile")
             /\ pc' = "S_deleteFile"
             /\ UNCHANGED <<error, failed>>
        ELSE SplitCatch("readFile") /\ UNCHANGED files
    /\ UNCHANGED <<loaded, call, thrown, dir, idx, progressSeq, workerScript, oldScript,
                   fetchStatus, count, engVars, appVars, logs, progress, ncalls>>

\* a drain that reads each file and never deletes it
SplitDeleteFile_KeepsFile ==
    /\ pc = "S_deleteFile"
    /\ DrainFrom(dir, idx + 1)
    /\ UNCHANGED <<loaded, call, thrown, error, failed, files, dir, workerScript,
                   oldScript, fetchStatus, count, engVars, appVars, logs, ncalls>>

\* await this.ffmpeg.deleteFile(f.name) settles; the loop moves on
SplitDeleteFile ==
    /\ pc = "S_deleteFile"
    /\ \E ok \in BOOLEAN :
        IF ok
        THEN /\ fs' = Remove(fs, dir[idx])
             /\ DrainFrom(dir, idx + 1)
             /\ UNCHANGED <<error, failed>>
        ELSE SplitCatch("deleteFile") /\ UNCHANGED <<fs, idx, progressSeq, progress>>
    /\ UNCHANGED <<loaded, call, thrown, files, dir, workerScript, oldScript,
                   fetchStatus, count, mounted, appVars, logs, ncalls>>

\* the catch block: await ffmpeg.unmount(mountDir) settles; its own failure is
\* swallowed by the empty catch
CatchUnmount ==
    /\ pc = "C_unmount"
    /\ \E ok \in (IF mounted THEN BOOLEAN ELSE {FALSE}) :
        IF ok
        THEN /\ mounted' = FALSE
             /\ ops' = Append(ops, "deleteDir")
             /\ pc' = "C_deleteDir"
             /\ UNCHANGED <<failed, logs, thrown>>
        ELSE /\ failed' = Append(failed, "unmount")
             /\ Rethrow
             /\ UNCHANGED <<mounted, ops>>
    /\ UNCHANGED <<loaded, call, error, files, dir, idx, progressSeq, workerScript,
                   oldScript, fetchStatus, count, fs, appVars, progress, ncalls>>

\* the catch block: await this.ffmpeg.deleteDir(mountDir) settles
CatchDeleteDir ==
    /\ pc = "C_deleteDir"
    /\ \E ok \in (IF MountDirExists /\ ~mounted THEN BOOLEAN ELSE {FALSE}) :
        IF ok
        THEN fs' = Remove(fs, MountDir) /\ UNCHANGED failed
        ELSE failed' = Append(failed, "deleteDir") /\ UNCHANGED fs
    /\ Rethrow
    /\ UNCHANGED <<loaded, call, ops, error, files, dir, idx, progressSeq, workerScript,
                   oldScript, fetchStatus, count, mounted, appVars, progress, ncalls>>

ServiceStep ==
    \/ LoadFetchWorker \/ LoadPatch \/ LoadCore \/ LoadWasm \/ LoadInit
    \/ SplitCreateDir \/ SplitMount \/ SplitExec \/ SplitUnmount \/ SplitDeleteDir
    \/ SplitListDir \/ SplitReadFile \/ SplitDeleteFile
    \/ CatchUnmount \/ CatchDeleteDir

(* ----------------------- a sequential caller --------------------------- *)
\* the caller awaits each call before the next; its log callback collects the
\* events of the call it is making
CallLoad ==
    /\ pc \in Settled
    /\ ncalls < MaxCalls
    /\ ncalls' = ncalls + 1
    /\ CallStart("load")
    /\ LoadBegin(<<>>)
    /\ UNCHANGED <<loaded, engVars, appVars, progress>>

CallSplit ==
    /\ pc \in Settled
    /\ ncalls < MaxCalls
    /\ ncalls' = ncalls + 1
    /\ CallStart("split")
    /\ SplitBegin(<<>>)
    /\ UNCHANGED <<loaded, engVars, appVars, progress>>

Next == CallLoad \/ CallSplit \/ ServiceStep

Spec == Init /\ [][Next]_vars

(* -------------------------------- App ---------------------------------- *)
\* the effect without `if (!ffmpegRef.current)`: every run of it makes a
\* service and loads
AppMount_NoRefGuard ==
    /\ ffmpegRef' = TRUE
    /\ state' = "LOADING_CORE"
    /\ CallStart("load")
    /\ LoadBegin(logs)
    /\ UNCHANGED <<loaded, engVars, videoFile, outputFiles, errorMessage, inflight,
                   progress, ncalls>>

\* useEffect on mount: create the service once and preload the core
AppMount ==
    /\ ~ffmpegRef
    /\ ffmpegRef' = TRUE
    /\ state' = "LOADING_CORE"
    /\ CallStart("load")
    /\ LoadBegin(logs)
    /\ UNCHANGED <<loaded, engVars, videoFile, outputFiles, errorMessage, inflight,
                   progress, ncalls>>

\* ffmpegRef.current.load().then(() => setState(AppState.READY))
AppLoadResolved ==
    /\ ffmpegRef /\ call = "load" /\ pc = "returned"
    /\ state' = "READY"
    /\ pc' = "idle"
    /\ UNCHANGED <<loaded, call, ops, failed, thrown, error, files, dir, idx,
                   progressSeq, workerScript, oldScript, fetchStatus, count, engVars,
                   videoFile, outputFiles, errorMessage, ffmpegRef, inflight, logs, progress,
                   ncalls>>

\* .catch((err) => { setErrorMessage(...); setState(AppState.ERROR); })
AppLoadRejected ==
    /\ ffmpegRef /\ call = "load" /\ pc = "threw"
    /\ errorMessage' = thrown
    /\ state' = "ERROR"
    /\ pc' = "idle"
    /\ UNCHANGED <<loaded, call, ops, failed, thrown, error, files, dir, idx,
                   progressSeq, workerScript, oldScript, fetchStatus, count, engVars,
                   videoFile, outputFiles, ffmpegRef, inflight, logs, progress, ncalls>>

\* the uploader is rendered in READY or IDLE with no file: handleFileSelect
HandleFileSelect ==
    /\ state \in {"READY", "IDLE"} /\ ~videoFile
    /\ videoFile' = TRUE
    /\ UNCHANGED <<svcVars, engVars, state, outputFiles, errorMessage, ffmpegRef,
                   inflight, logs, progress, ncalls>>

\* the Change button: setVideoFile(null)
ChangeFile ==
    /\ state \in {"READY", "IDLE"} /\ videoFile
    /\ videoFile' = FALSE
    /\ UNCHANGED <<svcVars, engVars, state, outputFiles, errorMessage, ffmpegRef,
                   inflight, logs, progress, ncalls>>

\* a Start Splitting button that is rendered in every state
HandleSplit_AlwaysOffered ==
    /\ videoFile /\ ffmpegRef
    /\ state' = "PROCESSING"
    /\ progress' = 0
    /\ inflight' = inflight + 1
    /\ CallStart("split")
    /\ SplitBegin(<<>>)
    /\ UNCHANGED <<loaded, engVars, videoFile, outputFiles, errorMessage, ffmpegRef, ncalls>>

\* the Start Splitting button, rendered in READY or IDLE with a file:
\* handleSplit up to the first await of splitVideo
HandleSplit ==
    /\ state \in {"READY", "IDLE"} /\ videoFile
    /\ ffmpegRef
    /\ state' = "PROCESSING"
    /\ progress' = 0
    /\ inflight' = inflight + 1
    /\ CallStart("split")
    /\ SplitBegin(<<>>)
    /\ UNCHANGED <<loaded, engVars, videoFile, outputFiles, errorMessage, ffmpegRef, ncalls>>

\* handleSplit after the await: setOutputFiles(resultFiles); COMPLETED
AppSplitResolved ==
    /\ ffmpegRef /\ call = "split" /\ pc = "returned"
    /\ outputFiles' = files
    /\ state' = "COMPLETED"
    /\ inflight' = inflight - 1
    /\ pc' = "idle"
    /\ UNCHANGED <<loaded, call, ops, failed, thrown, error, files, dir, idx,
                   progressSeq, workerScript, oldScript, fetchStatus, count, engVars,
                   videoFile, errorMessage, ffmpegRef, logs, progress, ncalls>>

\* handleSplit's catch: setErrorMessage(...); ERROR
AppSplitRejected ==
    /\ ffmpegRef /\ call = "split" /\ pc = "threw"
    /\ errorMessage' = thrown
    /\ state' = "ERROR"
    /\ inflight' = inflight - 1
    /\ pc' = "idle"
    /\ UNCHANGED <<loaded, call, ops, failed, thrown, error, files, dir, idx,
                   progressSeq, workerScript, oldScript, fetchStatus, count, engVars,
                   videoFile, outputFiles, ffmpegRef, logs, progress, ncalls>>

\* a Start Over that is also offered by the ERROR view
HandleReset_FromError ==
    /\ state \in {"COMPLETED", "ERROR"}
    /\ videoFile' = FALSE
    /\ outputFiles' = <<>>
    /\ progress' = 0
    /\ logs' = <<>>
    /\ state' = "READY"
    /\ UNCHANGED <<svcVars, engVars, errorMessage, ffmpegRef, inflight, ncalls>>

\* ResultsView's Start Over: handleReset
HandleReset ==
    /\ state = "COMPLETED"
    /\ videoFile' = FALSE
    /\ outputFiles' = <<>>
    /\ progress' = 0
    /\ logs' = <<>>
    /\ state' = "READY"
    /\ UNCHANGED <<svcVars, engVars, errorMessage, ffmpegRef, inflight, ncalls>>

\* the Retry button of the ERROR view: window.location.reload() starts a new
\* page session
AppReload ==
    /\ state = "ERROR"
    /\ loaded' = FALSE /\ pc' = "idle" /\ call' = "none" /\ ops' = <<>>
    /\ failed' = <<>> /\ thrown' = <<>> /\ error' = <<>> /\ files' = <<>>
    /\ dir' = <<>> /\ idx' = 0 /\ progressSeq' = <<>> /\ workerScript' = <<>>
    /\ oldScript' = <<>> /\ fetchStatus' = NoFetch
    /\ count' = [b \in BootSteps |-> 0]
    /\ fs' = <<SystemDir>> /\ mounted' = FALSE
    /\ state' = "IDLE" /\ videoFile' = FALSE /\ logs' = <<>> /\ progress' = 0
    /\ outputFiles' = <<>> /\ errorMessage' = <<>> /\ ffmpegRef' = FALSE /\ inflight' = 0
    /\ UNCHANGED ncalls

AppNext ==
    \/ AppMount \/ AppLoadResolved \/ AppLoadRejected
    \/ HandleFileSelect \/ ChangeFile \/ HandleSplit
    \/ AppSplitResolved \/ AppSplitRejected \/ HandleReset \/ AppReload
    \/ ServiceStep

AppSpec == Init /\ [][AppNext]_vars

(* ------------------- the rewrite on arbitrary scripts ------------------ *)
Snippets ==
    { <<"from", "\"", "./", "x", "\"">>,
      <<"from", " ", "'", "./", "x", "'">>,
      <<"from", "\n", "'", "./", "'">>,
      <<"from", "'", "./", "x", "\"">>,
      <<"from">>, <<"x">>, <<"'">>, <<"\n">>, <<"./">> }

\* worker.js bodies: every token sequence up to MaxScriptLen, and every
\* concatenation of up to MaxSnips snippets
PatchInputs ==
    SeqsUpTo(Tokens, MaxScriptLen) \cup {Flatten(ss) : ss \in SeqsUpTo(Snippets, MaxSnips)}

\* load() with the worker script fetched and `await workerResp.text()` pending
PatchInit ==
    /\ loaded = FALSE
    /\ pc = "L_text"
    /\ call = "load"
    /\ ops = <<"fetch:worker">>
    /\ failed = <<>>
    /\ thrown = <<>>
    /\ error = <<>>
    /\ files = <<>>
    /\ dir = <<>>
    /\ idx = 0
    /\ progressSeq = <<>>
    /\ workerScript \in PatchInputs
    /\ oldScript = <<>>
    /\ fetchStatus = [NoFetch EXCEPT !["worker"] = "ok"]
    /\ count = [b \in BootSteps |-> IF b = "fetch:worker" THEN 1 ELSE 0]
    /\ fs = <<SystemDir>>
    /\ mounted = FALSE
    /\ state = "IDLE"
    /\ videoFile = FALSE
    /\ logs = <<LogEntry("info", "Checking environment capabilities..."),
                LogEntry("info", "Loading FFmpeg resources..."),
                LogEntry("info", "Fetching worker script...")>>
    /\ progress = 0
    /\ outputFiles = <<>>
    /\ errorMessage = <<>>
    /\ ffmpegRef = FALSE
    /\ inflight = 0
    /\ ncalls = 1

PatchNext == LoadPatch

PatchSpec == PatchInit /\ [][PatchNext]_vars

(* ------------------------------ claims --------------------------------- *)
\* a name the pattern output_%03d.mp4 produces: output_, three or more digits,
\* .mp4
NamedByPattern(name) ==
    /\ Len(name) >= 5
    /\ name[1] = "output_"
    /\ \A i \in 2..(Len(name) - 1) : name[i] \in Range(Digit)
    /\ name[Len(name)] = ".mp4"

HoldsOutput(d) == \E e \in Range(d) : NamedByPattern(e.name)

SplitEnded == call = "split" /\ pc \in {"returned", "threw"}

\* the operations of the try block that threw (cleanup failures left out)
StepFailures == SelectSeq(failed, LAMBDA o : o \notin CleanupOps)

\* C1 as stated: after a splitVideo call has ended, returned or failed, the
\* working directory holds no entry named by the output pattern.
C1_NoOutputLeftAfterSplit == SplitEnded => ~HoldsOutput(fs)

\* C1 amended: after a splitVideo call has returned its outputs, the working
\* directory holds no entry named by the output pattern.
C1_NoOutputLeftAfterSuccess ==
    (call = "split" /\ pc = "returned") => ~HoldsOutput(fs)

C1_Witness ==
    /\ call = "split" /\ pc = "returned"
    /\ Len(files) >= 2
    /\ ~HoldsOutput(fs)

\* C2: when createDir or mount of the mount point throws, exec is never issued
\* during that call, and the call ends by throwing that error.
C2_MountFailureSkipsExec ==
    (call = "split" /\ failed # <<>> /\ failed[1] \in {"createDir", "mount"}) =>
        /\ "exec" \notin Range(ops)
        /\ pc \in {"C_unmount", "C_deleteDir", "threw"}
        /\ pc = "threw" => thrown = <<failed[1]>>

C2_Witness ==
    /\ call = "split" /\ pc = "threw"
    /\ failed # <<>> /\ failed[1] = "mount"
    /\ "exec" \notin Range(ops)

\* C3: the values passed to onProgress never decrease; a call that returned was
\* last given 100; a call that has not returned was never given 100.
C3_ProgressMonotoneEndsAt100 ==
    call = "split" =>
        /\ \A i \in 1..(Len(progressSeq) - 1) : progressSeq[i] <= progressSeq[i + 1]
        /\ pc = "returned" => (progressSeq # <<>> /\ Last(progressSeq) = 100)
        /\ pc # "returned" => 100 \notin Range(progressSeq)

C3_Witness ==
    /\ call = "split" /\ pc = "threw"
    /\ progressSeq = <<10, 80>>

\* C4: once the session is loaded no bootstrap step (fetch, patch, engine
\* initialization) runs again, and a load() called then returns at once.
C4_LoadIdempotent ==
    [][loaded =>
          /\ count' = count
          /\ (call' = "load" /\ ncalls' # ncalls) => (pc' = "returned" /\ ops' = <<>>)]_vars

C4_Witness ==
    /\ call = "load" /\ pc = "returned" /\ ops = <<>>
    /\ loaded
    /\ \A b \in BootSteps : count[b] = 1

\* C5 as stated: a load() in which one of the three fetches answered with a
\* non-success status ends by throwing, with the session not loaded.
C5_BadStatusFailsLoad ==
    (call = "load" /\ pc \in {"returned", "threw"}
        /\ \E r \in Resources : fetchStatus[r] = "bad")
    => (pc = "threw" /\ ~loaded)

\* C6: every engine job operation is issued on a loaded session; a splitVideo
\* whose implicit load() failed throws without issuing one.
C6_JobOnlyWhenLoaded ==
    /\ (Range(ops) \cap (JobOps \cup CleanupOps) # {}) => loaded
    /\ (call = "split" /\ ~loaded /\ pc \in {"returned", "threw"}) =>
           (pc = "threw" /\ thrown[1] = "FFmpeg Load Error")

C6_Witness ==
    /\ call = "split" /\ pc = "threw" /\ ~loaded
    /\ "init" \in Range(ops)
    /\ Range(ops) \cap JobOps = {}

\* C8: a call that returned holds, in listing order and once each, exactly the
\* entries of the listed directory that are files named by the output pattern.
C8_ResultIsListedOutputs ==
    (call = "split" /\ pc = "returned") =>
        LET want == SelectSeq(dir, LAMBDA e : ~e.isDir /\ NamedByPattern(e.name))
        IN  files = [i \in 1..Len(want) |-> want[i].name]

C8_Witness ==
    /\ call = "split" /\ pc = "returned"
    /\ files = [i \in 1..5 |-> OutputName(i - 1)]
    /\ \E e \in Range(dir) : e.isDir

\* C10: a call throws the error of the one try-block operation that failed,
\* never a cleanup error; a call that returned had no such failure; and a
\* failed cleanup after exec is followed by listDir.
C10_CleanupNeverDecides ==
    call = "split" =>
        /\ (pc = "threw" /\ loaded) =>
               (Len(StepFailures) = 1 /\ thrown = <<StepFailures[1]>>)
        /\ pc = "returned" => StepFailures = <<>>
        /\ (failed # <<>> /\ failed[1] \in CleanupOps) => "listDir" \in Range(ops)

C10_Witness ==
    /\ call = "split" /\ pc = "threw"
    /\ failed = <<"unmount", "readFile", "unmount">>
    /\ thrown = <<"readFile">>

\* C7: at most one splitVideo call is in flight, and one is in flight exactly
\* while the App is in PROCESSING.
C7_SingleSplitInFlight ==
    /\ inflight <= 1
    /\ inflight = 1 <=> state = "PROCESSING"
    /\ (call = "split" /\ pc \notin Settled) => inflight = 1

C7_Witness ==
    /\ state = "PROCESSING" /\ inflight = 1
    /\ call = "split" /\ pc = "S_exec"

\* s[p..e] reads: from, whitespace, a quote, ./, a run without quote or line
\* terminator, a quote; q is the place of the opening quote
RefAt(s, p, q, e) ==
    /\ 1 <= p /\ p < q /\ q + 1 < e /\ e <= Len(s)
    /\ s[p] = "from"
    /\ \A i \in (p + 1)..(q - 1) : s[i] \in Space
    /\ s[q] \in Quotes
    /\ s[q + 1] = "./"
    /\ \A i \in (q + 2)..(e - 1) : s[i] \notin Quotes \cup {"\n"}
    /\ s[e] \in Quotes

Refs(s) ==
    {r \in (1..Len(s)) \X (1..Len(s)) \X (1..Len(s)) : RefAt(s, r[1], r[2], r[3])}

\* the references of the two forms of the claim, from './X' and from "./X":
\* the closing quote is the opening one
StrictRefs(s) == {r \in Refs(s) : s[r[3]] = s[r[2]]}

\* s with its first reference, then the first one after it, and so on, each
\* turned into from 'BASE/X'
RECURSIVE Rewritten(_)
Rewritten(s) ==
    IF Refs(s) = {} THEN s
    ELSE LET r == CHOOSE x \in Refs(s) : \A y \in Refs(s) : x[1] <= y[1] IN
         SubSeq(s, 1, r[1] - 1)
             \o <<"from", " ", "'", BaseURL>> \o SubSeq(s, r[2] + 2, r[3] - 1) \o <<"'">>
             \o Rewritten(SubSeq(s, r[3] + 1, Len(s)))

Patched == pc = "L_core"
Warned == WarnNoPatch \in Range(logs)

\* C9 as stated: a script with no relative reference of the form from './X' or
\* from "./X" is left unchanged, one with such a reference is changed, and the
\* warning is logged exactly when nothing was rewritten.
C9_OnlyQuotedReferencesRewritten ==
    Patched =>
        /\ StrictRefs(oldScript) = {} => workerScript = oldScript
        /\ StrictRefs(oldScript) # {} => workerScript # oldScript
        /\ Warned <=> workerScript = oldScript

\* C9 amended: left to right, every match of from, whitespace, a quote of
\* either kind, ./X, a quote of either kind (not necessarily the opening
\* one) that does not overlap an earlier match becomes from 'BASE/X'; nothing
\* else changes; the warning is logged exactly when there was no match.
C9_EveryMatchRewritten ==
    Patched =>
        /\ workerScript = Rewritten(oldScript)
        /\ Refs(oldScript) = {} <=> workerScript = oldScript
        /\ Warned <=> workerScript = oldScript

C9_Witness ==
    /\ Patched
    /\ oldScript = <<"from", "\"", "./", "x", "\"", "from", " ", "'", "./", "x", "'">>
    /\ workerScript = <<"from", " ", "'", BaseURL, "x", "'",
                        "from", " ", "'", BaseURL, "x", "'">>
    /\ ~Warned

\* the segments held by the adapter (in files) and still by the engine (in fs)
HeldTwice == {n \in Range(files) : FileEntry(n) \in Range(fs)}

\* C11: during a splitVideo call at most one segment is both in files and in
\* the engine's working directory, and a readFile is followed by the deleteFile
\* of that entry (or by the cleanup of the catch block), never by another read.
C11_OneCopyInFlight ==
    call = "split" =>
        /\ Cardinality(HeldTwice) <= 1
        /\ \A i \in 1..(Len(ops) - 1) :
               ops[i] = "readFile" => ops[i + 1] \in {"deleteFile", "unmount"}

C11_Witness ==
    /\ call = "split" /\ pc = "S_deleteFile"
    /\ Len(files) >= 3
    /\ Cardinality(HeldTwice) = 1

LoadPcs == {"L_fetch", "L_text", "L_core", "L_wasm", "L_init"}

\* C12: in a page session each bootstrap resource is fetched at most once; the
\* bootstrap steps run only inside the load() the App issues at mount.
C12_FetchedAtMostOnce ==
    /\ \A b \in {"fetch:worker", "fetch:core", "fetch:wasm"} : count[b] <= 1
    /\ pc \in LoadPcs => (state = "LOADING_CORE" /\ call = "load")

\* a second job of the session, started through Start Over, meets the mount
\* point the first one left
C12_Witness ==
    /\ state = "PROCESSING" /\ call = "split"
    /\ failed = <<"createDir">> /\ MountDirExists
    /\ \A b \in {"fetch:worker", "fetch:core", "fetch:wasm"} : count[b] = 1

IsPrefix(a, b) == Len(a) <= Len(b) /\ SubSeq(b, 1, Len(a)) = a

\* the steps in which the App itself empties the log: handleSplit starting a
\* job, handleReset, and the reload that starts a new page session
StartsJob == state # "PROCESSING" /\ state' = "PROCESSING"
Resets == state = "COMPLETED" /\ state' = "READY"
Reloads == state = "ERROR" /\ state' = "IDLE"

\* C13 as stated: every step of the App leaves the log sequence it found as a
\* prefix of the log sequence it leaves.
C13_LogsAppendOnly == [][IsPrefix(logs, logs')]_vars

\* C13 amended: every step other than the start of a job (handleSplit), Start
\* Over (handleReset) and a page reload leaves the log it found as a prefix of
\* the log it leaves; handleReset and the reload leave it empty, and
\* handleSplit leaves only the events of the new call.
C13_LogsAppendOnlyWithinJob ==
    [][/\ ~(StartsJob \/ Resets \/ Reloads) => IsPrefix(logs, logs')
       /\ (Resets \/ Reloads) => logs' = <<>>
       /\ StartsJob => logs' = <<LogEntry("info", "Mounting input file...")>>]_vars

C13_Witness ==
    /\ state = "PROCESSING" /\ pc = "S_listDir"
    /\ Len(logs) = 4
    /\ logs[1] = LogEntry("info", "Mounting input file...")

\* C14 as stated: loaded never goes from true to false, and it goes from false
\* to true only in the step that ends load()'s engine initialization, in a
\* load() whose three fetches all answered with a success status; a bootstrap
\* step that fails leaves it false.
C14_LoadedOnlyAfterFullBootstrap ==
    [][/\ loaded => loaded'
       /\ (~loaded /\ loaded') =>
              /\ pc = "L_init"
              /\ \A r \in Resources : fetchStatus[r] = "ok"
       /\ (pc \in LoadPcs /\ pc' = "threw") => ~loaded']_vars

\* C15 as stated: when a splitVideo call has returned successfully, /input_mount
\* is neither mounted nor present in the engine's filesystem.
C15_NoMountResidueAfterSplit ==
    (call = "split" /\ pc = "returned") => (~mounted /\ ~MountDirExists)

\* C15 amended: when a splitVideo call has returned successfully and neither
\* the unmount nor the deleteDir of its inner try failed, /input_mount is
\* neither mounted nor present; when one of them failed the call still
\* returns, and the mount point is still present.
C15_NoMountResidueAfterCleanSplit ==
    (call = "split" /\ pc = "returned") =>
        IF Range(failed) \cap CleanupOps = {}
        THEN ~mounted /\ ~MountDirExists
        ELSE MountDirExists

C15_Witness ==
    /\ call = "split" /\ pc = "returned"
    /\ failed = <<>>
    /\ Len(files) >= 2
    /\ ~mounted /\ ~MountDirExists

\* the page reload: the App and the service are those of a new session
NewSession == state' = "IDLE" /\ ~ffmpegRef' /\ ~loaded' /\ pc' = "idle" /\ inflight' = 0

\* C16: the App enters ERROR only when a load() or splitVideo call threw;
\* from ERROR a step either leaves the state and the service untouched (no
\* load() or splitVideo is issued, no operation runs) or is the page reload
\* that starts a new session; and the App is in COMPLETED only with a
\* splitVideo call that returned without throwing behind it and with
\* outputFiles equal to that call's result.
C16_ErrorAbsorbingCompletedAfterSuccess ==
    [][/\ (state # "ERROR" /\ state' = "ERROR") =>
              (pc = "threw" /\ thrown # <<>> /\ errorMessage' = thrown)
       /\ state = "ERROR" =>
              \/ state' = "ERROR" /\ UNCHANGED <<pc, call, ops, count, inflight, loaded>>
              \/ NewSession
       /\ (state # "COMPLETED" /\ state' = "COMPLETED") =>
              (call = "split" /\ pc = "returned" /\ thrown = <<>>)
       /\ state' = "COMPLETED" =>
              (call' = "split" /\ thrown' = <<>> /\ outputFiles' = files')]_vars

C16_Witness ==
    /\ state = "ERROR" /\ call = "split"
    /\ errorMessage = <<"exec">>
    /\ pc = "idle" /\ inflight = 0
====
